---- MODULE Spec2Model ----
(***************************************************************************)
(* A model of chained_viper: the Iter, Result and Option wrappers of       *)
(* src/src/chained_viper.  Python values are records with one shape, so    *)
(* that any two of them can be compared; an operation's outcome is either  *)
(* a returned value or a raised exception.                                 *)
(***************************************************************************)
EXTENDS Integers, Sequences, FiniteSets, TLC

(* ------------------------------ bounds --------------------------------- *)

\* longest source sequence an Iter is built over
MaxLen == 3
\* source elements and integer payloads are 1..MaxVal
MaxVal == 2
\* largest argument of advance_by
MaxAdvance == 2
\* deepest nesting of exception instances inside an Err payload
MaxNest == 1

(* --------------------------- python values ----------------------------- *)

\* the value None
PyNone == [t |-> "none", n |-> 0, k |-> "-", args |-> <<>>]

\* an int
PyInt(n) == [t |-> "int", n |-> n, k |-> "-", args |-> <<>>]

\* the str s
PyStr(s) == [t |-> "str", n |-> 0, k |-> s, args |-> <<>>]

\* an exception instance of class k with the argument tuple args
PyExc(k, args) == [t |-> "exc", n |-> 0, k |-> k, args |-> args]

\* True or False
PyBool(b) == [t |-> "bool", n |-> IF b THEN 1 ELSE 0, k |-> "-", args |-> <<>>]

\* the tuple of the values xs
PyTuple(xs) == [t |-> "tuple", n |-> 0, k |-> "-", args |-> xs]

\* the list of the values xs
PyList(xs) == [t |-> "list", n |-> 0, k |-> "-", args |-> xs]

\* an Option object wrapping v
PyOption(v) == [t |-> "option", n |-> 0, k |-> "-", args |-> <<v>>]

\* bool(v): None, 0, False and the empty containers are false
Truthy(v) ==
    CASE v.t = "none" -> FALSE
      [] v.t \in {"int", "bool"} -> v.n # 0
      [] v.t = "str" -> v.k # ""
      [] v.t \in {"tuple", "list"} -> v.args # <<>>
      [] OTHER -> TRUE

\* iter(v) succeeds: v is a container
Iterable(v) == v.t \in {"tuple", "list"}

\* how deep exception instances nest inside v
RECURSIVE Nesting(_)
Nesting(v) ==
    IF v.t # "exc" THEN 0
    ELSE IF v.args = <<>> THEN 1
    ELSE 1 + Nesting(v.args[1])

\* the raw elements a source may hold (no None elements)
Elems == {PyInt(n) : n \in 1..MaxVal}

\* all sequences over S of length at most n
SeqUpTo(S, n) == UNION {[1..m -> S] : m \in 0..n}

\* xs without its first n elements
Drop(xs, n) == SubSeq(xs, n + 1, Len(xs))

\* the smaller of two numbers
Min(a, b) == IF a <= b THEN a ELSE b

(* ------------------------- outcomes of a call -------------------------- *)

\* the call returned Option(v)
RetOption(v) == [kind |-> "option", val |-> v, num |-> 0, items |-> <<>>, exc |-> "-"]

\* the call returned the int n
RetInt(n) == [kind |-> "int", val |-> PyNone, num |-> n, items |-> <<>>, exc |-> "-"]

\* the call returned a list of raw values
RetList(xs) == [kind |-> "list", val |-> PyNone, num |-> 0, items |-> xs, exc |-> "-"]

\* the call raised an exception of class e
RetRaise(e) == [kind |-> "raise", val |-> PyNone, num |-> 0, items |-> <<>>, exc |-> e]

\* nothing has been called yet
RetNothing == [kind |-> "nothing", val |-> PyNone, num |-> 0, items |-> <<>>, exc |-> "-"]

(* ------------------------------- Option -------------------------------- *)

\* Option.is_some: the wrapped value is not None
is_some(v) == v.t # "none"

\* Option.is_none
is_none(v) == v.t = "none"

(* -------------------------------- Iter --------------------------------- *)
(* self.iter_ is either the raw source iterator (kind "source") or the     *)
(* generator plain_iterator(val, self) that peek installs (kind            *)
(* "plain_iterator").  src is what the raw source iterator has not yet     *)
(* produced; the generator does not hold it, it only holds self.  pos is   *)
(* the generator's position: "start" (not yet run), "yielded" (suspended   *)
(* at yield val.unwrap()) or "done" (returned or died).                    *)

\* Iter.__init__ over a raw sequence
IterInit(xs) == [kind |-> "source", src |-> xs, pos |-> "-", val |-> PyNone]

\* the pair (state after the pull, what the pull produced)
Pulled(s, out) == [st |-> s, out |-> out]

\* next(self.iter_) with no default.  running: the generator that is
\* self.iter_ is the one executing this pull (its body pulls self again).
RECURSIVE RawNext(_, _)
RawNext(s, running) ==
    IF s.kind = "source"
    THEN IF s.src = <<>>
         THEN Pulled(s, RetRaise("StopIteration"))
         ELSE Pulled([s EXCEPT !.src = Tail(s.src)], RetOption(Head(s.src)))
    ELSE IF running
         THEN Pulled(s, RetRaise("ValueError"))
         ELSE IF s.pos = "start"
              THEN Pulled([s EXCEPT !.pos = "yielded"], RetOption(s.val))
              ELSE IF s.pos = "yielded"
                   THEN LET inner == RawNext(s, TRUE)
                        IN  IF inner.out.kind = "raise" /\ inner.out.exc = "StopIteration"
                            THEN Pulled([inner.st EXCEPT !.pos = "done"], RetRaise("StopIteration"))
                            ELSE IF inner.out.kind = "raise"
                                 THEN Pulled([inner.st EXCEPT !.pos = "done"], inner.out)
                                 ELSE Pulled(inner.st, inner.out)
                   ELSE Pulled(s, RetRaise("StopIteration"))

\* Iter.__next__: Option(next(self.iter_)), StopIteration passes through
DunderNext(s) == RawNext(s, FALSE)

\* Iter.next with StopIteration left to escape
IterNextNoDefault(s) == RawNext(s, FALSE)

\* Iter.next: Option(next(self.iter_, None))
IterNext(s) ==
    LET r == RawNext(s, FALSE)
    IN  IF r.out.kind = "raise" /\ r.out.exc = "StopIteration"
        THEN Pulled(r.st, RetOption(PyNone))
        ELSE r

\* Iter.peek
IterPeek(s) ==
    LET r == IterNext(s)
    IN  IF r.out.kind = "raise"
        THEN r
        ELSE IF is_some(r.out.val)
             THEN Pulled([kind |-> "plain_iterator", src |-> r.st.src,
                          pos |-> "start", val |-> r.out.val], r.out)
             ELSE r

\* "for item in self": pull with __next__ until StopIteration; acc collects
\* item.value.  A result of kind "list" is a loop that ended normally.
RECURSIVE ForEach(_, _)
ForEach(s, acc) ==
    LET r == DunderNext(s)
    IN  IF r.out.kind = "raise"
        THEN IF r.out.exc = "StopIteration"
             THEN Pulled(r.st, RetList(acc))
             ELSE r
        ELSE ForEach(r.st, Append(acc, r.out.val))

\* islice(self, n): at most n pulls with __next__
RECURSIVE Islice(_, _, _)
Islice(s, n, acc) ==
    IF n = 0
    THEN Pulled(s, RetList(acc))
    ELSE LET r == DunderNext(s)
         IN  IF r.out.kind = "raise"
             THEN IF r.out.exc = "StopIteration"
                  THEN Pulled(r.st, RetList(acc))
                  ELSE r
             ELSE Islice(r.st, n - 1, Append(acc, r.out.val))

\* Iter.count
IterCount(s) ==
    LET r == ForEach(s, <<>>)
    IN  IF r.out.kind = "raise" THEN r ELSE Pulled(r.st, RetInt(Len(r.out.items)))

\* Iter.collect(list) with the None elements left out of the list
RECURSIVE IterCollectSkipsNone(_, _)
IterCollectSkipsNone(s, acc) ==
    LET r == DunderNext(s)
    IN  IF r.out.kind = "raise"
        THEN IF r.out.exc = "StopIteration"
             THEN Pulled(r.st, RetList(acc))
             ELSE r
        ELSE IterCollectSkipsNone(r.st, IF is_none(r.out.val) THEN acc ELSE Append(acc, r.out.val))

\* Iter.collect(list) with the list built back to front
RECURSIVE IterCollectReversed(_, _)
IterCollectReversed(s, acc) ==
    LET r == DunderNext(s)
    IN  IF r.out.kind = "raise"
        THEN IF r.out.exc = "StopIteration"
             THEN Pulled(r.st, RetList(acc))
             ELSE r
        ELSE IF is_none(r.out.val)
             THEN Pulled(r.st, RetRaise("ValueError"))
             ELSE IterCollectReversed(r.st, <<r.out.val>> \o acc)

\* list((item.unwrap() for item in self)): the pulls stop at StopIteration,
\* and at the first None element, whose unwrap raises ValueError.  acc is
\* the list built so far.
RECURSIVE CollectList(_, _)
CollectList(s, acc) ==
    LET r == DunderNext(s)
    IN  IF r.out.kind = "raise"
        THEN IF r.out.exc = "StopIteration"
             THEN Pulled(r.st, RetList(acc))
             ELSE r
        ELSE IF is_none(r.out.val)
             THEN Pulled(r.st, RetRaise("ValueError"))
             ELSE CollectList(r.st, Append(acc, r.out.val))

\* Iter.collect(list)
IterCollect(s) == CollectList(s, <<>>)

\* Iter.last returning the first remaining element
IterLastIsFirst(s) ==
    LET first == IterNext(s)
    IN  IF first.out.kind = "raise"
        THEN first
        ELSE LET rest == ForEach(first.st, <<first.out.val>>)
             IN  IF rest.out.kind = "raise"
                 THEN rest
                 ELSE Pulled(rest.st, RetOption(rest.out.items[1]))

\* Iter.last: peeked_iterator yields self.next() and then the rest of self
IterLast(s) ==
    LET first == IterNext(s)
    IN  IF first.out.kind = "raise"
        THEN first
        ELSE LET rest == ForEach(first.st, <<first.out.val>>)
             IN  IF rest.out.kind = "raise"
                 THEN rest
                 ELSE Pulled(rest.st, RetOption(rest.out.items[Len(rest.out.items)]))

\* Iter.advance_by reporting n whatever it skipped
IterAdvanceByReportsN(s, n) ==
    LET r == Islice(s, n, <<>>)
    IN  IF r.out.kind = "raise" THEN r ELSE Pulled(r.st, RetInt(n))

\* Iter.advance_by
IterAdvanceBy(s, n) ==
    LET r == Islice(s, n, <<>>)
    IN  IF r.out.kind = "raise" THEN r ELSE Pulled(r.st, RetInt(Len(r.out.items)))

\* utils.consume(iterable, n): next(islice(iterable, n, n), None) pulls at
\* most n items and returns None; islice rejects a negative n
consume(s, n) ==
    IF n < 0
    THEN Pulled(s, RetRaise("ValueError"))
    ELSE LET r == Islice(s, n, <<>>)
         IN  IF r.out.kind = "raise" THEN r ELSE Pulled(r.st, RetNothing)

\* Iter.nth counting from zero
IterNthFromZero(s, n) ==
    LET c == consume(s, n)
    IN  IF c.out.kind = "raise" THEN c ELSE IterNext(c.st)

\* Iter.nth: consume(self, n - 1), then self.next()
IterNth(s, n) ==
    LET c == consume(s, n - 1)
    IN  IF c.out.kind = "raise" THEN c ELSE IterNext(c.st)

\* the elements no call has consumed yet: the element peek put back, then
\* what the raw source has not produced
Unconsumed(s) ==
    IF s.kind = "plain_iterator" /\ s.pos = "start" THEN <<s.val>> \o s.src ELSE s.src

(* ------------------------------- closures ------------------------------ *)
(* A caller-supplied closure is known to the library only by what a call   *)
(* of it does: return a value or raise an exception.                       *)

\* the exception classes closures raise and Results carry (subclasses of
\* Exception: what "except Exception" and isinstance(value, Exception) catch)
ExcTypes == {"ValueError", "KeyError"}

\* the ints used as values and payloads
Ints == {PyInt(n) : n \in 1..MaxVal}

\* exception instances: no argument, one argument, two arguments
ExcInstances ==
    {PyExc("KeyError", <<>>), PyExc("KeyError", <<PyInt(MaxVal)>>),
     PyExc("ValueError", <<PyInt(MaxVal)>>), PyExc("ValueError", <<PyInt(1), PyInt(MaxVal)>>)}

\* values that are not exception instances
PlainVals == {PyNone} \cup Ints

\* the closure was called and returned v
Returned(v) == [kind |-> "ret", val |-> v]

\* the closure was called and raised the exception instance e
Raised(e) == [kind |-> "raise", val |-> e]

\* lambda x: MaxVal + 1 - x  (raises TypeError on a non-int)
FnFlip == [b |-> "flip", v |-> PyNone, k |-> "-"]

\* lambda x: v
FnConst(v) == [b |-> "const", v |-> v, k |-> "-"]

\* a closure whose body is "raise e"
FnRaise(e) == [b |-> "raise", v |-> e, k |-> "-"]

\* lambda x: k(x), as in tests/test_result.py:58
FnWrap(k) == [b |-> "wrap", v |-> PyNone, k |-> k]

\* lambda x: x == v
FnEq(v) == [b |-> "eq", v |-> v, k |-> "-"]

\* lambda x: Option(x if x == v else None)
FnSomeIf(v) == [b |-> "someif", v |-> v, k |-> "-"]

\* no closure was passed
NoFn == [b |-> "-", v |-> PyNone, k |-> "-"]

\* the one-argument closures passed to the combinators
Closures ==
    {FnFlip} \cup {FnConst(v) : v \in PlainVals \cup ExcInstances}
             \cup {FnRaise(e) : e \in ExcInstances}
             \cup {FnWrap(k) : k \in ExcTypes}

\* the closures passed as map_or_else's default
Defaults == {FnConst(PyInt(1)), FnRaise(PyExc("KeyError", <<PyInt(MaxVal)>>)), FnWrap("ValueError")}

\* the values passed as default to map_or and unwrap_or
DefaultVals == {PyNone, PyInt(1)}

\* the no-argument closures passed to Result.into
Suppliers ==
    {FnConst(v) : v \in PlainVals \cup ExcInstances} \cup {FnRaise(e) : e \in ExcInstances}

\* f(x)
Apply(f, x) ==
    CASE f.b = "flip"  -> IF x.t = "int"
                          THEN Returned(PyInt(MaxVal + 1 - x.n))
                          ELSE Raised(PyExc("TypeError", <<PyStr("unsupported operand")>>))
      [] f.b = "const" -> Returned(f.v)
      [] f.b = "raise" -> Raised(f.v)
      [] f.b = "wrap"  -> Returned(PyExc(f.k, <<x>>))
      [] f.b = "eq"    -> Returned(PyBool(x = f.v))
      [] f.b = "someif" -> Returned(PyOption(IF x = f.v THEN x ELSE PyNone))

\* f()
Apply0(f) ==
    CASE f.b = "const" -> Returned(f.v)
      [] f.b = "raise" -> Raised(f.v)

\* one invocation of the closure passed as parameter who, with argument tuple a
Invoked(who, a) == [who |-> who, args |-> a]

(* ------------------------------- Result -------------------------------- *)
(* A Result is its two slots: value and err_type ("None" on an Ok).        *)

\* a Result object
Res(value, err_type) == [value |-> value, err_type |-> err_type]

\* the method returned the Result r, having made the closure calls c
OutResult(r, c) == [kind |-> "result", res |-> r, raw |-> PyNone, calls |-> c]

\* the method returned the raw value v
OutRaw(v, c) == [kind |-> "raw", res |-> Res(PyNone, "None"), raw |-> v, calls |-> c]

\* the method raised the exception instance e
OutRaise(e, c) == [kind |-> "raise", res |-> Res(PyNone, "None"), raw |-> e, calls |-> c]

\* nothing has been called yet
OutNothing == [kind |-> "nothing", res |-> Res(PyNone, "None"), raw |-> PyNone, calls |-> <<>>]

\* Result.__init__: an Exception instance becomes an Err of its class with
\* its first argument as payload; value.args[0] raises IndexError on ()
ResultNew(value, c) ==
    IF value.t = "exc"
    THEN IF value.args = <<>>
         THEN OutRaise(PyExc("IndexError", <<PyStr("tuple index out of range")>>), c)
         ELSE OutResult(Res(value.args[1], value.k), c)
    ELSE OutResult(Res(value, "None"), c)

\* Result.is_ok
is_ok(r) == r.err_type = "None"

\* Result.is_err
is_err(r) == r.err_type # "None"

\* the same try/except/finally with the raised exception itself as val
TryLiftOwnArgs(f, who, x) ==
    LET r == Apply(f, x)
        c == <<Invoked(who, <<x>>)>>
    IN  ResultNew(r.val, c)

\* the try/except/finally of map, map_or, and_then and or_else:
\* val = f(x); except Exception as e: val = type(e)(x); finally: return Result(val)
TryLift(f, who, x) ==
    LET r == Apply(f, x)
        c == <<Invoked(who, <<x>>)>>
    IN  IF r.kind = "raise"
        THEN ResultNew(PyExc(r.val.k, <<x>>), c)
        ELSE ResultNew(r.val, c)

\* Result.into without the try: what f raises escapes
ResultIntoNoCatch(f) ==
    LET r == Apply0(f)
        c == <<Invoked("f", <<>>)>>
    IN  IF r.kind = "raise" THEN OutRaise(r.val, c) ELSE ResultNew(r.val, c)

\* Result.into: val = f(); except Exception as e: val = e; finally: return Result(val)
ResultInto(f) ==
    LET r == Apply0(f)
        c == <<Invoked("f", <<>>)>>
    IN  ResultNew(r.val, c)

\* Result.map on an Err returning an Ok of the payload
ResultMapDropsKind(self, key) ==
    IF ~is_ok(self) THEN ResultNew(self.value, <<>>) ELSE TryLift(key, "key", self.value)

\* Result.map
ResultMap(self, key) ==
    IF ~is_ok(self)
    THEN ResultNew(PyExc(self.err_type, <<self.value>>), <<>>)
    ELSE TryLift(key, "key", self.value)

\* Result.map_or
ResultMapOr(self, f, default) ==
    IF ~is_ok(self) THEN ResultNew(default, <<>>) ELSE TryLift(f, "f", self.value)

\* Result.map_or_else wrapping what it computed in a Result
ResultMapOrElseWrapped(self, f, default) ==
    IF ~is_ok(self)
    THEN TryLift(default, "default", self.value)
    ELSE TryLift(f, "f", self.value)

\* Result.map_or_else: the except clause re-raises
ResultMapOrElse(self, f, default) ==
    LET g == IF ~is_ok(self) THEN default ELSE f
        who == IF ~is_ok(self) THEN "default" ELSE "f"
        r == Apply(g, self.value)
        c == <<Invoked(who, <<self.value>>)>>
    IN  IF r.kind = "raise" THEN OutRaise(r.val, c) ELSE OutRaw(r.val, c)

\* Result.map_err returning Result(f(self.value)), the kind dropped
ResultMapErrDropsKind(self, f) ==
    IF ~is_ok(self)
    THEN LET r == Apply(f, self.value)
             c == <<Invoked("f", <<self.value>>)>>
         IN  IF r.kind = "raise" THEN OutRaise(r.val, c) ELSE ResultNew(r.val, c)
    ELSE OutResult(self, <<>>)

\* Result.map_err: f is called outside any try
ResultMapErr(self, f) ==
    IF ~is_ok(self)
    THEN LET r == Apply(f, self.value)
             c == <<Invoked("f", <<self.value>>)>>
         IN  IF r.kind = "raise"
             THEN OutRaise(r.val, c)
             ELSE ResultNew(PyExc(self.err_type, <<r.val>>), c)
    ELSE OutResult(self, <<>>)

\* Result.unwrap raising a plain Exception
ResultUnwrapGeneric(self) ==
    IF ~is_ok(self)
    THEN OutRaise(PyExc("Exception", <<self.value>>), <<>>)
    ELSE OutRaw(self.value, <<>>)

\* Result.unwrap
ResultUnwrap(self) ==
    IF ~is_ok(self)
    THEN OutRaise(PyExc(self.err_type, <<self.value>>), <<>>)
    ELSE OutRaw(self.value, <<>>)

\* Result.and_
ResultAnd(self, other) ==
    IF ~is_ok(self) THEN OutResult(self, <<>>) ELSE OutResult(other, <<>>)

\* Result.and_then
ResultAndThen(self, f) ==
    IF ~is_ok(self) THEN OutResult(self, <<>>) ELSE TryLift(f, "f", self.value)

\* Result.or_
ResultOr(self, other) ==
    IF is_ok(self) THEN OutResult(self, <<>>) ELSE OutResult(other, <<>>)

\* Result.or_else
ResultOrElse(self, f) ==
    IF is_ok(self) THEN OutResult(self, <<>>) ELSE TryLift(f, "f", self.value)

\* Result.unwrap_or
ResultUnwrapOr(self, default) ==
    IF ~is_ok(self) THEN OutRaw(default, <<>>) ELSE OutRaw(self.value, <<>>)

\* Result.unwrap_or_else
ResultUnwrapOrElse(self, f) ==
    IF ~is_ok(self)
    THEN LET r == Apply(f, self.value)
             c == <<Invoked("f", <<self.value>>)>>
         IN  IF r.kind = "raise" THEN OutRaise(r.val, c) ELSE OutRaw(r.val, c)
    ELSE OutRaw(self.value, <<>>)

\* Result.expect
ResultExpect(self, message) ==
    IF ~is_ok(self)
    THEN OutRaise(PyExc(self.err_type, <<message>>), <<>>)
    ELSE OutRaw(self.value, <<>>)

\* Result.expect_err
ResultExpectErr(self, message) ==
    IF is_ok(self)
    THEN OutRaise(PyExc("Exception", <<message>>), <<>>)
    ELSE OutRaw(self.value, <<>>)

\* Result.unwrap_err
ResultUnwrapErr(self) ==
    IF ~is_ok(self)
    THEN OutRaw(self.value, <<>>)
    ELSE OutRaise(PyExc("Exception", <<self.value>>), <<>>)

\* the values Result(...) is constructed from
CtorVals == PlainVals \cup {e \in ExcInstances : e.args # <<>>}

\* the Results a caller can construct directly
Results == {ResultNew(v, <<>>).res : v \in CtorVals}

\* the messages passed to expect and expect_err
Messages == {PyStr("msg")}

(* ------------------------------ adaptors ------------------------------- *)
(* An adaptor is the Iter that map, filter, ... return: a generator that   *)
(* holds the Iter it was built from (and, for chain and zip, the other     *)
(* iterable) and pulls it when it is pulled itself.  Its state: kind, the  *)
(* method that built it; f, the callback; st, "live" or "done" (the        *)
(* generator returned or died); buf, the items of an inner iterator it     *)
(* owns (flat_map, flatten, the list given to chain or zip); idx, the      *)
(* counter of enumerate and step_by; phase, which side chain is on.        *)

\* no adaptor has been built
NoAdaptor == [kind |-> "-", f |-> NoFn, st |-> "-", buf |-> <<>>, idx |-> 0, phase |-> "-"]

\* the generator a method builds, not yet started
Adaptor(kind, f, idx) ==
    [kind |-> kind, f |-> f, st |-> "live", buf |-> <<>>, idx |-> idx, phase |-> "-"]

\* the argument of chain and zip: form is "iter" (an Iter), "iterator" (a
\* plain iterator) or "seq" (a list); src is what it has not yet produced
Other(form, xs) == [form |-> form, src |-> xs]

\* no other iterable was passed
NoOther == [form |-> "-", src |-> <<>>]

\* the call returned a new Iter
RetIter == [kind |-> "iter", val |-> PyNone, num |-> 0, items |-> <<>>, exc |-> "-"]

\* the call returned self
RetSelf == [kind |-> "self", val |-> PyNone, num |-> 0, items |-> <<>>, exc |-> "-"]

\* the outcome of one step: the adaptor, the Iter it was built from, the
\* other iterable, the arguments the callback was called with, the result
Step(a, s, o, log, out) == [ad |-> a, it |-> s, oth |-> o, log |-> log, out |-> out]

\* the generator raised or returned: it is finished for good
Die(a) == [a EXCEPT !.st = "done"]

\* map: item.map(f).value for item in self
GenMap(a, s, o, log) ==
    LET r == DunderNext(s)
    IN  IF r.out.kind = "raise"
        THEN Step(Die(a), r.st, o, log, r.out)
        ELSE IF is_none(r.out.val)
             THEN Step(a, r.st, o, log, RetOption(PyNone))
             ELSE LET fr == Apply(a.f, r.out.val)
                  IN  IF fr.kind = "raise"
                      THEN Step(Die(a), r.st, o, Append(log, r.out.val), RetRaise(fr.val.k))
                      ELSE Step(a, r.st, o, Append(log, r.out.val), RetOption(fr.val))

\* filter: the builtin filter(pred, (opt.value for opt in self)), pred being
\* bool when None was passed; a raising pred does not finish a filter object
RECURSIVE GenFilter(_, _, _, _)
GenFilter(a, s, o, log) ==
    LET r == DunderNext(s)
    IN  IF r.out.kind = "raise"
        THEN Step(Die(a), r.st, o, log, r.out)
        ELSE LET v == r.out.val
                 p == IF a.f = NoFn THEN Returned(PyBool(Truthy(v))) ELSE Apply(a.f, v)
                 log2 == IF a.f = NoFn THEN log ELSE Append(log, v)
             IN  IF p.kind = "raise"
                 THEN Step(a, r.st, o, log2, RetRaise(p.val.k))
                 ELSE IF Truthy(p.val)
                      THEN Step(a, r.st, o, log2, RetOption(v))
                      ELSE GenFilter(a, r.st, o, log2)

\* filter_map: val = f(item.value); if val.is_some(): yield val.value
RECURSIVE GenFilterMap(_, _, _, _)
GenFilterMap(a, s, o, log) ==
    LET r == DunderNext(s)
    IN  IF r.out.kind = "raise"
        THEN Step(Die(a), r.st, o, log, r.out)
        ELSE LET fr == Apply(a.f, r.out.val)
                 log2 == Append(log, r.out.val)
             IN  IF fr.kind = "raise"
                 THEN Step(Die(a), r.st, o, log2, RetRaise(fr.val.k))
                 ELSE IF fr.val.t # "option"
                      THEN Step(Die(a), r.st, o, log2, RetRaise("AttributeError"))
                      ELSE IF is_some(fr.val.args[1])
                           THEN Step(a, r.st, o, log2, RetOption(fr.val.args[1]))
                           ELSE GenFilterMap(a, r.st, o, log2)

\* flat_map and flatten: for item in self: yield from map(f, item.value),
\* or yield from item.value; buf is what the inner iterator has left
RECURSIVE GenFlat(_, _, _, _)
GenFlat(a, s, o, log) ==
    IF a.buf # <<>>
    THEN LET x == Head(a.buf)
             rest == [a EXCEPT !.buf = Tail(a.buf)]
         IN  IF a.kind = "flatten"
             THEN Step(rest, s, o, log, RetOption(x))
             ELSE LET fr == Apply(a.f, x)
                  IN  IF fr.kind = "raise"
                      THEN Step(Die(rest), s, o, Append(log, x), RetRaise(fr.val.k))
                      ELSE Step(rest, s, o, Append(log, x), RetOption(fr.val))
    ELSE LET r == DunderNext(s)
         IN  IF r.out.kind = "raise"
             THEN Step(Die(a), r.st, o, log, r.out)
             ELSE IF ~Iterable(r.out.val)
                  THEN Step(Die(a), r.st, o, log, RetRaise("TypeError"))
                  ELSE GenFlat([a EXCEPT !.buf = r.out.val.args], r.st, o, log)

\* inspect: f(item.value); yield item.value
GenInspect(a, s, o, log) ==
    LET r == DunderNext(s)
    IN  IF r.out.kind = "raise"
        THEN Step(Die(a), r.st, o, log, r.out)
        ELSE LET fr == Apply(a.f, r.out.val)
             IN  IF fr.kind = "raise"
                 THEN Step(Die(a), r.st, o, Append(log, r.out.val), RetRaise(fr.val.k))
                 ELSE Step(a, r.st, o, Append(log, r.out.val), RetOption(r.out.val))

\* chain yielding the right side before the left
RECURSIVE GenChainRightFirst(_, _, _, _)
GenChainRightFirst(a, s, o, log) ==
    IF a.phase = "left" /\ o.src # <<>>
    THEN Step(a, s, [o EXCEPT !.src = Tail(o.src)], log, RetOption(Head(o.src)))
    ELSE LET r == DunderNext(s)
         IN  IF r.out.kind = "raise" THEN Step(Die(a), r.st, o, log, r.out)
                                     ELSE Step(a, r.st, o, log, r.out)

\* chain: yield from left; then right is normalised (a list gets its own
\* iterator, an Iter or a plain iterator is pulled as it is) and yielded from
RECURSIVE GenChain(_, _, _, _)
GenChain(a, s, o, log) ==
    CASE a.phase = "left" ->
            LET r == DunderNext(s)
            IN  IF r.out.kind = "raise"
                THEN IF r.out.exc = "StopIteration"
                     THEN IF o.form = "seq"
                          THEN GenChain([a EXCEPT !.phase = "own", !.buf = o.src], r.st, o, log)
                          ELSE GenChain([a EXCEPT !.phase = "shared"], r.st, o, log)
                     ELSE Step(Die(a), r.st, o, log, r.out)
                ELSE Step(a, r.st, o, log, r.out)
      [] a.phase = "own" ->
            IF a.buf = <<>>
            THEN Step(Die(a), s, o, log, RetRaise("StopIteration"))
            ELSE Step([a EXCEPT !.buf = Tail(a.buf)], s, o, log, RetOption(Head(a.buf)))
      [] a.phase = "shared" ->
            IF o.src = <<>>
            THEN Step(Die(a), s, o, log, RetRaise("StopIteration"))
            ELSE Step(a, s, [o EXCEPT !.src = Tail(o.src)], log, RetOption(Head(o.src)))

\* zip yielding the pairs the other way round
GenZipSwapped(a, s, o, log) ==
    LET r == DunderNext(s)
    IN  IF r.out.kind = "raise"
        THEN Step(Die(a), r.st, o, log, r.out)
        ELSE IF a.phase = "own"
             THEN IF a.buf = <<>>
                  THEN Step(Die(a), r.st, o, log, RetRaise("StopIteration"))
                  ELSE Step([a EXCEPT !.buf = Tail(a.buf)], r.st, o, log,
                            RetOption(PyTuple(<<Head(a.buf), r.out.val>>)))
             ELSE IF o.src = <<>>
                  THEN Step(Die(a), r.st, o, log, RetRaise("StopIteration"))
                  ELSE Step(a, r.st, [o EXCEPT !.src = Tail(o.src)], log,
                            RetOption(PyTuple(<<Head(o.src), r.out.val>>)))

\* zip looking at the other side before it pulls self
GenZipOtherFirst(a, s, o, log) ==
    IF (IF a.phase = "own" THEN a.buf ELSE o.src) = <<>>
    THEN Step(Die(a), s, o, log, RetRaise("StopIteration"))
    ELSE LET r == DunderNext(s)
         IN  IF r.out.kind = "raise"
             THEN Step(Die(a), r.st, o, log, r.out)
             ELSE IF a.phase = "own"
                  THEN Step([a EXCEPT !.buf = Tail(a.buf)], r.st, o, log,
                            RetOption(PyTuple(<<r.out.val, Head(a.buf)>>)))
                  ELSE Step(a, r.st, [o EXCEPT !.src = Tail(o.src)], log,
                            RetOption(PyTuple(<<r.out.val, Head(o.src)>>)))

\* zip: (a.value, b.value) for a, b in zip(self, Iter(other)); zip pulls
\* self first and stops at the first side that is exhausted
GenZip(a, s, o, log) ==
    LET r == DunderNext(s)
    IN  IF r.out.kind = "raise"
        THEN Step(Die(a), r.st, o, log, r.out)
        ELSE IF a.phase = "own"
             THEN IF a.buf = <<>>
                  THEN Step(Die(a), r.st, o, log, RetRaise("StopIteration"))
                  ELSE Step([a EXCEPT !.buf = Tail(a.buf)], r.st, o, log,
                            RetOption(PyTuple(<<r.out.val, Head(a.buf)>>)))
             ELSE IF o.src = <<>>
                  THEN Step(Die(a), r.st, o, log, RetRaise("StopIteration"))
                  ELSE Step(a, r.st, [o EXCEPT !.src = Tail(o.src)], log,
                            RetOption(PyTuple(<<r.out.val, Head(o.src)>>)))

\* enumerate: (i, item.value) for i, item in enumerate(self, start=start)
GenEnumerate(a, s, o, log) ==
    LET r == DunderNext(s)
    IN  IF r.out.kind = "raise"
        THEN Step(Die(a), r.st, o, log, r.out)
        ELSE Step([a EXCEPT !.idx = a.idx + 1], r.st, o, log,
                  RetOption(PyTuple(<<PyInt(a.idx), r.out.val>>)))

\* take_while: taker pulls with self.next() and stops at the first element
\* that is absent or fails f
GenTakeWhile(a, s, o, log) ==
    LET r == IterNext(s)
    IN  IF r.out.kind = "raise"
        THEN Step(Die(a), r.st, o, log, r.out)
        ELSE IF is_none(r.out.val)
             THEN Step(Die(a), r.st, o, log, RetRaise("StopIteration"))
             ELSE LET fr == Apply(a.f, r.out.val)
                      log2 == Append(log, r.out.val)
                  IN  IF fr.kind = "raise"
                      THEN Step(Die(a), r.st, o, log2, RetRaise(fr.val.k))
                      ELSE IF Truthy(fr.val)
                           THEN Step(a, r.st, o, log2, RetOption(r.out.val))
                           ELSE Step(Die(a), r.st, o, log2, RetRaise("StopIteration"))

\* next(gen) on the adaptor's generator
GenNext(a, s, o, log) ==
    IF a.st # "live"
    THEN Step(a, s, o, log, RetRaise("StopIteration"))
    ELSE CASE a.kind = "map" -> GenMap(a, s, o, log)
           [] a.kind = "filter" -> GenFilter(a, s, o, log)
           [] a.kind = "filter_map" -> GenFilterMap(a, s, o, log)
           [] a.kind \in {"flat_map", "flatten"} -> GenFlat(a, s, o, log)
           [] a.kind = "inspect" -> GenInspect(a, s, o, log)
           [] a.kind = "chain" -> GenChain(a, s, o, log)
           [] a.kind = "zip" -> GenZip(a, s, o, log)
           [] a.kind = "enumerate" -> GenEnumerate(a, s, o, log)
           [] a.kind = "take_while" -> GenTakeWhile(a, s, o, log)

\* the adaptor's next(): Option(next(self.iter_, None))
AdaptorNext(a, s, o, log) ==
    LET x == GenNext(a, s, o, log)
    IN  IF x.out.kind = "raise" /\ x.out.exc = "StopIteration"
        THEN Step(x.ad, x.it, x.oth, x.log, RetOption(PyNone))
        ELSE x

\* the adaptor's collect(list); acc is the list built so far
RECURSIVE AdaptorCollect(_, _, _, _, _)
AdaptorCollect(a, s, o, log, acc) ==
    LET x == GenNext(a, s, o, log)
    IN  IF x.out.kind = "raise"
        THEN IF x.out.exc = "StopIteration"
             THEN Step(x.ad, x.it, x.oth, x.log, RetList(acc))
             ELSE x
        ELSE IF is_none(x.out.val)
             THEN Step(x.ad, x.it, x.oth, x.log, RetRaise("ValueError"))
             ELSE AdaptorCollect(x.ad, x.it, x.oth, x.log, Append(acc, x.out.val))

\* a method that pulls one element while it builds its adaptor
BuildEager(a, s, o) == Step(a, IterNext(s).st, o, <<>>, RetIter)

\* return Iter(<generator>): the generator is created, nothing runs
Build(a, s, o) == Step(a, s, o, <<>>, RetIter)

\* the outcome of a call on the Iter itself: its state, the arguments the
\* callback was called with, the result
Done(s, log, out) == [it |-> s, log |-> log, out |-> out]

\* Iter.step_by: itemgetter is not imported, so evaluating new_stepper
\* raises NameError before the Iter is returned
IterStepBy(s, n) == Done(s, <<>>, RetRaise("NameError"))

\* skip_while that stops in front of the first element failing f
RECURSIVE IterSkipWhileInFront(_, _, _)
IterSkipWhileInFront(s, f, log) ==
    LET r == IterNext(s)
    IN  IF r.out.kind = "raise"
        THEN Done(r.st, log, r.out)
        ELSE IF is_none(r.out.val)
             THEN Done(r.st, log, RetSelf)
             ELSE LET fr == Apply(f, r.out.val)
                      log2 == Append(log, r.out.val)
                  IN  IF fr.kind = "raise"
                      THEN Done(r.st, log2, RetRaise(fr.val.k))
                      ELSE IF Truthy(fr.val)
                           THEN IterSkipWhileInFront(r.st, f, log2)
                           ELSE Done(s, log2, RetSelf)

\* Iter.skip_while: pull with self.next() while the item satisfies f; the
\* item that ends the loop has been pulled too
RECURSIVE IterSkipWhile(_, _, _)
IterSkipWhile(s, f, log) ==
    LET r == IterNext(s)
    IN  IF r.out.kind = "raise"
        THEN Done(r.st, log, r.out)
        ELSE IF is_none(r.out.val)
             THEN Done(r.st, log, RetSelf)
             ELSE LET fr == Apply(f, r.out.val)
                      log2 == Append(log, r.out.val)
                  IN  IF fr.kind = "raise"
                      THEN Done(r.st, log2, RetRaise(fr.val.k))
                      ELSE IF Truthy(fr.val)
                           THEN IterSkipWhile(r.st, f, log2)
                           ELSE Done(r.st, log2, RetSelf)

\* find pulling one element more after the one it returns
IterFindOverruns(s, f) ==
    LET x == AdaptorNext(Adaptor("filter", f, 0), s, NoOther, <<>>)
    IN  Done(IterNext(x.it).st, x.log, x.out)

\* Iter.find: self.filter(f).next()
IterFind(s, f) ==
    LET x == AdaptorNext(Adaptor("filter", f, 0), s, NoOther, <<>>)
    IN  Done(x.it, x.log, x.out)

\* the call returned the raw value v
RetValue(v) == [kind |-> "value", val |-> v, num |-> 0, items |-> <<>>, exc |-> "-"]

\* one item of the generator (f(item.unwrap()) for item in self)
FoldItem(s, f, log) ==
    LET r == DunderNext(s)
    IN  IF r.out.kind = "raise"
        THEN Done(r.st, log, r.out)
        ELSE IF is_none(r.out.val)
             THEN Done(r.st, log, RetRaise("ValueError"))
             ELSE LET fr == Apply(f, r.out.val)
                  IN  IF fr.kind = "raise"
                      THEN Done(r.st, Append(log, r.out.val), RetRaise(fr.val.k))
                      ELSE Done(r.st, Append(log, r.out.val), RetValue(fr.val))

\* Iter.fold: reduce(initial_value, <generator>) takes initial_value as the
\* function and has no initial value: an empty iterable is a TypeError, the
\* first item becomes the accumulator, and the second item makes reduce
\* call initial_value, which is not callable
IterFold(s, initial, f) ==
    LET first == FoldItem(s, f, <<>>)
    IN  IF first.out.kind = "raise"
        THEN IF first.out.exc = "StopIteration"
             THEN Done(first.it, first.log, RetRaise("TypeError"))
             ELSE first
        ELSE LET second == FoldItem(first.it, f, first.log)
             IN  IF second.out.kind = "raise"
                 THEN IF second.out.exc = "StopIteration"
                      THEN Done(second.it, second.log, first.out)
                      ELSE second
                 ELSE Done(second.it, second.log, RetRaise("TypeError"))

(* ------------------------------- Option -------------------------------- *)
(* Option objects live in a heap of three: a, the receiver; b, the Option  *)
(* passed as argument; n, the Option the last call created.  The heap maps *)
(* each to its self.value.  A call that returns an Option returns a        *)
(* reference to one of them, so that returning self or other shows.        *)

\* the outcome of an Option method: kind is "option" (it returned the
\* Option object ref, fresh when the call created it; "-" is an object no
\* one else holds), "raw" (it returned the value val), "result", "iter" or
\* "raise" (val is the exception instance); calls counts the calls of the
\* closure passed
OptOut(kind, ref, fresh, val, calls) ==
    [kind |-> kind, ref |-> ref, fresh |-> fresh, val |-> val, calls |-> calls]

\* lambda x: g(f(x))
FnCompose(g, f) == [b |-> "compose", v |-> PyNone, k |-> "-", g |-> g, f |-> f]

\* f(x), f being a closure or the composition of two
Invoke(f, x) ==
    IF f.b = "compose"
    THEN LET r == Apply(f.f, x)
         IN  IF r.kind = "raise" THEN r ELSE Apply(f.g, r.val)
    ELSE Apply(f, x)

\* Option.map that keeps the Option when f returns None
OptionMapKeepsOnNone(h, r, f) ==
    IF is_some(h[r])
    THEN LET c == Invoke(f, h[r])
         IN  IF c.kind = "raise"
             THEN [heap |-> h, out |-> OptOut("raise", "-", FALSE, c.val, 1)]
             ELSE IF is_none(c.val)
                  THEN [heap |-> h, out |-> OptOut("option", r, FALSE, h[r], 1)]
                  ELSE [heap |-> [h EXCEPT !.n = c.val],
                        out |-> OptOut("option", "n", TRUE, c.val, 1)]
    ELSE [heap |-> h, out |-> OptOut("option", r, FALSE, h[r], 0)]

\* Option.map on the object r of the heap h:
\* Option(f(self.value)) if self.is_some() else self
OptionMap(h, r, f) ==
    IF is_some(h[r])
    THEN LET c == Invoke(f, h[r])
         IN  IF c.kind = "raise"
             THEN [heap |-> h, out |-> OptOut("raise", "-", FALSE, c.val, 1)]
             ELSE [heap |-> [h EXCEPT !.n = c.val],
                   out |-> OptOut("option", "n", TRUE, c.val, 1)]
    ELSE [heap |-> h, out |-> OptOut("option", r, FALSE, h[r], 0)]

\* Option.ok_or that forgets e
OptionOkOrForgetsE(v, e) == ResultNew(v, <<>>)

\* Option.ok_or: Result(self.value if self.is_some() else e)
OptionOkOr(v, e) == ResultNew(IF is_some(v) THEN v ELSE e, <<>>)

\* Option.iter: an Iter over the value when it has __iter__, else an Iter
\* over the one-element tuple (self.value,)
OptionIter(v) == IF Iterable(v) THEN IterInit(v.args) ELSE IterInit(<<v>>)

\* Result.ok: Option(self.value) if self.is_ok() else Option(None)
ResultOk(self) == OutRaw(PyOption(IF is_ok(self) THEN self.value ELSE PyNone), <<>>)

(* ------------------------------- state --------------------------------- *)

VARIABLES
    iter_,      \* the Iter under test (its self.iter_)
    itOp,       \* the last Iter method called
    itArg,      \* its argument (advance_by)
    itRet,      \* what it returned or raised
    itPre,      \* Unconsumed before that call
    prevOp,     \* the Iter method called before it
    prevRet,    \* and its outcome
    called,     \* the Iter methods called so far on this Iter
    res,        \* the Result under test (self)
    rOp,        \* the last Result method called
    rFn,        \* the closure passed to it (f, key)
    rFn2,       \* the second closure passed to it (default of map_or_else)
    rArg,       \* its value argument (default, message) or other.value
    rOther,     \* its Result argument (other)
    rOut,       \* what it returned or raised, and the closure calls it made
    rPre,       \* self before that call
    ad,         \* the adaptor built from the Iter under test
    other_,     \* the iterable passed to chain or zip
    itFn,       \* the callback passed to the last Iter method called
    cbLog,      \* the arguments that call invoked callbacks with, in order
    othPre,     \* what other_ had left for the adaptor before that call
    adPre,      \* the adaptor before that call
    heap,       \* the value of each Option object: a, b and n
    oRet,       \* the Option object the last combinator returned
    oOp,        \* the last Option method called
    oFn,        \* the closure passed to it
    oFn2,       \* the second closure passed to it
    oArg,       \* its value argument
    oOut,       \* its outcome
    oPre        \* the heap before that call

iterVars == <<iter_, itOp, itArg, itRet, itPre, prevOp, prevRet, called>>

resultVars == <<res, rOp, rFn, rFn2, rArg, rOther, rOut, rPre>>

adaptVars == <<ad, other_, itFn, cbLog, othPre, adPre>>

optVars == <<heap, oRet, oOp, oFn, oFn2, oArg, oOut, oPre>>

vars == <<iter_, itOp, itArg, itRet, itPre, prevOp, prevRet, called,
          res, rOp, rFn, rFn2, rArg, rOther, rOut, rPre,
          ad, other_, itFn, cbLog, othPre, adPre,
          heap, oRet, oOp, oFn, oFn2, oArg, oOut, oPre>>

\* no Iter call has been made
IterIdle ==
    /\ itOp = "-"
    /\ itArg = 0
    /\ itRet = RetNothing
    /\ itPre = <<>>
    /\ prevOp = "-"
    /\ prevRet = RetNothing
    /\ called = {}

\* no Result call has been made
ResultIdle ==
    /\ rOp = "-"
    /\ rFn = NoFn
    /\ rFn2 = NoFn
    /\ rArg = PyNone
    /\ rOther = Res(PyNone, "None")
    /\ rOut = OutNothing
    /\ rPre = Res(PyNone, "None")

\* no adaptor has been built and no callback passed
AdaptIdle ==
    /\ ad = NoAdaptor
    /\ other_ = NoOther
    /\ itFn = NoFn
    /\ cbLog = <<>>
    /\ othPre = <<>>
    /\ adPre = NoAdaptor

\* no Option method has been called
OptIdle ==
    /\ oRet = "-"
    /\ oOp = "-"
    /\ oFn = NoFn
    /\ oFn2 = NoFn
    /\ oArg = PyNone
    /\ oOut = OptOut("nothing", "-", FALSE, PyNone, 0)
    /\ oPre = heap

\* no Option is under test
NoOptions ==
    /\ heap = [a |-> PyNone, b |-> PyNone, n |-> PyNone]
    /\ OptIdle

(* ----------------------------- Iter calls ------------------------------ *)

IterStart ==
    /\ iter_ \in {IterInit(xs) : xs \in SeqUpTo(Elems, MaxLen)}
    /\ IterIdle
    /\ AdaptIdle
    /\ NoOptions
    /\ res = Res(PyNone, "None")
    /\ ResultIdle

\* one call of an Iter method whose effect is r
IterCall(op, arg, r) ==
    /\ iter_' = r.st
    /\ itOp' = op
    /\ itArg' = arg
    /\ itRet' = r.out
    /\ itPre' = Unconsumed(iter_)
    /\ prevOp' = itOp
    /\ prevRet' = itRet
    /\ called' = called \cup {op}
    /\ UNCHANGED resultVars
    /\ UNCHANGED adaptVars
    /\ UNCHANGED optVars

CallNext == IterCall("next", 0, IterNext(iter_))

CallPeek == IterCall("peek", 0, IterPeek(iter_))

CallCount == IterCall("count", 0, IterCount(iter_))

CallCollect == IterCall("collect", 0, IterCollect(iter_))

CallLast == IterCall("last", 0, IterLast(iter_))

CallAdvanceBy == \E n \in 0..MaxAdvance : IterCall("advance_by", n, IterAdvanceBy(iter_, n))

CallNth == \E n \in 0..MaxAdvance : IterCall("nth", n, IterNth(iter_, n))

IterStep ==
    \/ CallNext
    \/ CallPeek
    \/ CallCount
    \/ CallCollect
    \/ CallLast
    \/ CallAdvanceBy
    \/ CallNth

SpecIter == IterStart /\ [][IterStep]_vars

(* ---------------------------- Result calls ----------------------------- *)

ResultStart ==
    /\ res \in Results
    /\ ResultIdle
    /\ iter_ = IterInit(<<>>)
    /\ IterIdle
    /\ AdaptIdle
    /\ NoOptions

\* one call of a Result method with outcome o; a returned Result is the
\* receiver of the next call (the calls are chained)
ResultCall(op, f, f2, arg, other, o) ==
    /\ res' = IF o.kind = "result" THEN o.res ELSE res
    /\ rOp' = op
    /\ rFn' = f
    /\ rFn2' = f2
    /\ rArg' = arg
    /\ rOther' = other
    /\ rOut' = o
    /\ rPre' = res
    /\ UNCHANGED iterVars
    /\ UNCHANGED adaptVars
    /\ UNCHANGED optVars

NoRes == Res(PyNone, "None")

CallInto == \E f \in Suppliers : ResultCall("into", f, NoFn, PyNone, NoRes, ResultInto(f))

CallMap == \E f \in Closures : ResultCall("map", f, NoFn, PyNone, NoRes, ResultMap(res, f))

CallMapOr ==
    \E f \in Closures, d \in DefaultVals :
        ResultCall("map_or", f, NoFn, d, NoRes, ResultMapOr(res, f, d))

CallMapOrElse ==
    \E f \in Closures, d \in Defaults :
        ResultCall("map_or_else", f, d, PyNone, NoRes, ResultMapOrElse(res, f, d))

\* (map_err is the one call that can nest payloads without end: f's result
\* is kept whole, so the nesting is capped here)
CallMapErr ==
    \E f \in Closures :
        LET o == ResultMapErr(res, f)
        IN  /\ o.kind = "result" => Nesting(o.res.value) <= MaxNest
            /\ ResultCall("map_err", f, NoFn, PyNone, NoRes, o)

CallUnwrap == ResultCall("unwrap", NoFn, NoFn, PyNone, NoRes, ResultUnwrap(res))

CallAnd == \E o \in Results : ResultCall("and_", NoFn, NoFn, PyNone, o, ResultAnd(res, o))

CallAndThen == \E f \in Closures : ResultCall("and_then", f, NoFn, PyNone, NoRes, ResultAndThen(res, f))

CallOr == \E o \in Results : ResultCall("or_", NoFn, NoFn, PyNone, o, ResultOr(res, o))

CallOrElse == \E f \in Closures : ResultCall("or_else", f, NoFn, PyNone, NoRes, ResultOrElse(res, f))

CallUnwrapOr == \E d \in DefaultVals : ResultCall("unwrap_or", NoFn, NoFn, d, NoRes, ResultUnwrapOr(res, d))

CallUnwrapOrElse ==
    \E f \in Closures : ResultCall("unwrap_or_else", f, NoFn, PyNone, NoRes, ResultUnwrapOrElse(res, f))

CallExpect == \E m \in Messages : ResultCall("expect", NoFn, NoFn, m, NoRes, ResultExpect(res, m))

CallExpectErr == \E m \in Messages : ResultCall("expect_err", NoFn, NoFn, m, NoRes, ResultExpectErr(res, m))

CallUnwrapErr == ResultCall("unwrap_err", NoFn, NoFn, PyNone, NoRes, ResultUnwrapErr(res))

ResultStep ==
    \/ CallInto
    \/ CallMap
    \/ CallMapOr
    \/ CallMapOrElse
    \/ CallMapErr
    \/ CallUnwrap
    \/ CallAnd
    \/ CallAndThen
    \/ CallOr
    \/ CallOrElse
    \/ CallUnwrapOr
    \/ CallUnwrapOrElse
    \/ CallExpect
    \/ CallExpectErr
    \/ CallUnwrapErr

SpecResult == ResultStart /\ [][ResultStep]_vars

(* =============================== claims ================================ *)

\* what a pull of an Iter whose unconsumed elements are xs should return
Front(xs) == IF xs = <<>> THEN RetOption(PyNone) ELSE RetOption(Head(xs))

\* only next and peek have been called on the Iter
OnlyPeekNext == called \subseteq {"peek", "next"}

(* --------------------- Iter calls with adaptors ------------------------ *)
(* One Iter over a source that may hold None elements and lists, the one   *)
(* adaptor built from it, and the calls made on either of them.  peek is   *)
(* not called here.                                                        *)

\* the lists a source of lists holds
Lists == {PyList(<<>>), PyList(<<PyInt(1), PyInt(MaxVal)>>)}

\* the sources: flat ones over None, the smallest and the largest int, and
\* lists of lists
Sources == SeqUpTo({PyNone, PyInt(1), PyInt(MaxVal)}, MaxLen) \cup SeqUpTo(Lists, MaxLen - 1)

\* the callbacks passed to map
IterFns == {FnFlip, FnEq(PyInt(1)), FnRaise(PyExc("KeyError", <<PyInt(MaxVal)>>))}

\* the callbacks passed to flat_map, inspect and fold
Callbacks == {FnFlip, FnRaise(PyExc("KeyError", <<PyInt(MaxVal)>>))}

\* the predicates passed to filter, take_while and skip_while
Preds == {FnEq(PyInt(1)), FnRaise(PyExc("KeyError", <<PyInt(MaxVal)>>))}

\* the callbacks passed to filter_map: one returns an Option, one does not
OptionFns == {FnSomeIf(PyInt(1)), FnFlip}

\* the iterables passed to chain and zip
\* (what is left of 1, ..., MaxVal after some pulls)
Others ==
    {Other(form, Drop([i \in 1..MaxVal |-> PyInt(i)], n)) :
        form \in {"iter", "iterator", "seq"}, n \in 0..MaxVal}

\* what the other iterable still has to give to the adaptor
OtherRemaining(a, o) == IF a.phase = "own" THEN a.buf ELSE o.src

AdaptStart ==
    /\ iter_ \in {IterInit(xs) : xs \in Sources}
    /\ IterIdle
    /\ AdaptIdle
    /\ NoOptions
    /\ res = Res(PyNone, "None")
    /\ ResultIdle

\* the bookkeeping of one call: what was called, with what, on which state
Record(op, arg, f, out, log) ==
    /\ itOp' = op
    /\ itArg' = arg
    /\ itFn' = f
    /\ itRet' = out
    /\ cbLog' = log
    /\ itPre' = Unconsumed(iter_)
    /\ othPre' = OtherRemaining(ad, other_)
    /\ adPre' = ad
    /\ prevOp' = itOp
    /\ UNCHANGED <<prevRet, called>>
    /\ UNCHANGED optVars
    /\ UNCHANGED resultVars

\* a call on the Iter itself whose effect is d
SourceCall(op, arg, f, d) ==
    /\ iter_' = d.it
    /\ UNCHANGED <<ad, other_>>
    /\ Record(op, arg, f, d.out, d.log)

\* a call that builds the adaptor or pulls it, whose effect is x
AdaptorCall(op, arg, f, x) ==
    /\ iter_' = x.it
    /\ ad' = x.ad
    /\ other_' = x.oth
    /\ Record(op, arg, f, x.out, x.log)

\* a call that invokes no callback
Plain(r) == Done(r.st, <<>>, r.out)

DoNext == SourceCall("next", 0, NoFn, Plain(IterNext(iter_)))

DoCollect == SourceCall("collect", 0, NoFn, Plain(IterCollect(iter_)))

DoSkipWhile == \E f \in Preds : SourceCall("skip_while", 0, f, IterSkipWhile(iter_, f, <<>>))

DoFold == \E f \in Callbacks : SourceCall("fold", 0, f, IterFold(iter_, PyInt(0), f))

DoFind == \E f \in Preds : SourceCall("find", 0, f, IterFind(iter_, f))

DoStepBy == \E n \in 1..MaxAdvance : SourceCall("step_by", n, NoFn, IterStepBy(iter_, n))

DoMap ==
    /\ ad = NoAdaptor
    /\ \E f \in IterFns : AdaptorCall("map", 0, f, Build(Adaptor("map", f, 0), iter_, other_))

DoFilter ==
    /\ ad = NoAdaptor
    /\ \E f \in Preds \cup {NoFn} :
          AdaptorCall("filter", 0, f, Build(Adaptor("filter", f, 0), iter_, other_))

DoFilterMap ==
    /\ ad = NoAdaptor
    /\ \E f \in OptionFns :
          AdaptorCall("filter_map", 0, f, Build(Adaptor("filter_map", f, 0), iter_, other_))

DoFlatMap ==
    /\ ad = NoAdaptor
    /\ \E f \in Callbacks :
          AdaptorCall("flat_map", 0, f, Build(Adaptor("flat_map", f, 0), iter_, other_))

DoFlatten ==
    /\ ad = NoAdaptor
    /\ AdaptorCall("flatten", 0, NoFn, Build(Adaptor("flatten", NoFn, 0), iter_, other_))

DoInspect ==
    /\ ad = NoAdaptor
    /\ \E f \in Callbacks :
          AdaptorCall("inspect", 0, f, Build(Adaptor("inspect", f, 0), iter_, other_))

DoChain ==
    /\ ad = NoAdaptor
    /\ \E o \in Others :
          AdaptorCall("chain", 0, NoFn,
                      Build([Adaptor("chain", NoFn, 0) EXCEPT !.phase = "left"], iter_, o))

\* zip wraps other in Iter(other) at once: a list gets its own iterator
DoZip ==
    /\ ad = NoAdaptor
    /\ \E o \in Others :
          AdaptorCall("zip", 0, NoFn,
                      Build(IF o.form = "seq"
                            THEN [Adaptor("zip", NoFn, 0) EXCEPT !.phase = "own", !.buf = o.src]
                            ELSE [Adaptor("zip", NoFn, 0) EXCEPT !.phase = "shared"],
                            iter_, o))

DoEnumerate ==
    /\ ad = NoAdaptor
    /\ \E start \in 0..1 :
          AdaptorCall("enumerate", start, NoFn, Build(Adaptor("enumerate", NoFn, start), iter_, other_))

DoTakeWhile ==
    /\ ad = NoAdaptor
    /\ \E f \in Preds :
          AdaptorCall("take_while", 0, f, Build(Adaptor("take_while", f, 0), iter_, other_))

DoAdaptorNext ==
    /\ ad # NoAdaptor
    /\ AdaptorCall("adaptor.next", 0, NoFn, AdaptorNext(ad, iter_, other_, <<>>))

DoAdaptorCollect ==
    /\ ad # NoAdaptor
    /\ AdaptorCall("adaptor.collect", 0, NoFn, AdaptorCollect(ad, iter_, other_, <<>>, <<>>))

AdaptStep ==
    \/ DoNext
    \/ DoCollect
    \/ DoSkipWhile
    \/ DoFold
    \/ DoStepBy
    \/ DoFind
    \/ DoMap
    \/ DoFilter
    \/ DoFilterMap
    \/ DoFlatMap
    \/ DoFlatten
    \/ DoInspect
    \/ DoChain
    \/ DoZip
    \/ DoEnumerate
    \/ DoTakeWhile
    \/ DoAdaptorNext
    \/ DoAdaptorCollect

SpecAdapt == AdaptStart /\ [][AdaptStep]_vars

(* ---------------------------- Option calls ----------------------------- *)
(* The combinators are called on a with b as the other Option; insert,     *)
(* take and replace are called on the Option the last combinator returned. *)

\* the values the Options a and b are built from
OptVals ==
    {PyNone, PyInt(1), PyInt(MaxVal), PyList(<<PyInt(1), PyInt(MaxVal)>>),
     PyExc("ValueError", <<PyInt(1)>>)}

\* the one-argument closures passed to the Option combinators
OptFns == {FnFlip, FnConst(PyNone), FnConst(PyInt(1)), FnRaise(PyExc("KeyError", <<PyInt(MaxVal)>>))}

\* the no-argument closures passed to them
OptSuppliers == {FnConst(PyNone), FnConst(PyInt(MaxVal))}

OptionStart ==
    /\ heap \in {[a |-> x, b |-> y, n |-> PyNone] : x \in OptVals, y \in {PyNone, PyInt(MaxVal)}}
    /\ OptIdle
    /\ iter_ = IterInit(<<>>)
    /\ IterIdle
    /\ AdaptIdle
    /\ res = Res(PyNone, "None")
    /\ ResultIdle

\* one call of an Option method with the effect e (the heap after it and
\* its outcome)
OptCall(op, f, f2, arg, e) ==
    /\ heap' = e.heap
    /\ oRet' = IF e.out.kind = "option" /\ e.out.ref # "-" THEN e.out.ref ELSE oRet
    /\ oOp' = op
    /\ oFn' = f
    /\ oFn2' = f2
    /\ oArg' = arg
    /\ oOut' = e.out
    /\ oPre' = heap
    /\ UNCHANGED adaptVars

\* the Iter an earlier call made is dropped
NoIter ==
    /\ iter_' = IterInit(<<>>)
    /\ itOp' = "-"
    /\ itArg' = 0
    /\ itRet' = RetNothing
    /\ itPre' = <<>>
    /\ prevOp' = "-"
    /\ prevRet' = RetNothing
    /\ called' = {}

\* the Result an earlier call made is dropped, r is the Result under test
NewResult(r) ==
    /\ res' = r
    /\ rOp' = "-"
    /\ rFn' = NoFn
    /\ rFn2' = NoFn
    /\ rArg' = PyNone
    /\ rOther' = Res(PyNone, "None")
    /\ rOut' = OutNothing
    /\ rPre' = Res(PyNone, "None")

\* the Iter and the Result an earlier call made are dropped
Dropped ==
    /\ NoIter
    /\ NewResult(Res(PyNone, "None"))

\* a new Option(v), kept as n
NewOption(v, calls) ==
    [heap |-> [heap EXCEPT !.n = v], out |-> OptOut("option", "n", TRUE, v, calls)]

\* the Option r that exists already
SameOption(r) == [heap |-> heap, out |-> OptOut("option", r, FALSE, heap[r], 0)]

\* the closure raised e
OptRaised(e) == [heap |-> heap, out |-> OptOut("raise", "-", FALSE, e, 1)]

OptMap == \E f \in OptFns : OptCall("map", f, NoFn, PyNone, OptionMap(heap, "a", f)) /\ Dropped

\* the expression a.map(f).map(g)
OptMapMap ==
    \E f \in OptFns, g \in OptFns :
        LET first == OptionMap(heap, "a", f)
        IN  /\ OptCall("map.map", f, g, PyNone,
                       IF first.out.kind = "raise"
                       THEN first
                       ELSE OptionMap(first.heap, first.out.ref, g))
            /\ Dropped

OptMapOr ==
    \E f \in OptFns, d \in DefaultVals :
        LET c == Apply(f, heap.a)
        IN  /\ OptCall("map_or", f, NoFn, d,
                       IF is_none(heap.a) THEN NewOption(d, 0)
                       ELSE IF c.kind = "raise" THEN OptRaised(c.val)
                       ELSE NewOption(c.val, 1))
            /\ Dropped

OptMapOrElse ==
    \E f \in OptFns, d \in OptSuppliers :
        LET c == Apply(f, heap.a)
        IN  /\ OptCall("map_or_else", f, d, PyNone,
                       IF is_none(heap.a) THEN NewOption(Apply0(d).val, 1)
                       ELSE IF c.kind = "raise" THEN OptRaised(c.val)
                       ELSE NewOption(c.val, 1))
            /\ Dropped

OptAnd ==
    /\ OptCall("and_", NoFn, NoFn, PyNone,
               IF is_some(heap.a) /\ is_some(heap.b) THEN SameOption("b") ELSE NewOption(PyNone, 0))
    /\ Dropped

OptAndThen ==
    \E f \in OptFns :
        LET c == Apply(f, heap.a)
        IN  /\ OptCall("and_then", f, NoFn, PyNone,
                       IF ~is_some(heap.a) THEN NewOption(PyNone, 0)
                       ELSE IF c.kind = "raise" THEN OptRaised(c.val)
                       ELSE NewOption(c.val, 1))
            /\ Dropped

\* Option(next(filter(predicate, (self.value,)), None))
OptFilter ==
    \E f \in {NoFn, FnEq(PyInt(1))} :
        /\ OptCall("filter", f, NoFn, PyNone,
                   IF is_none(heap.a) THEN NewOption(PyNone, 0)
                   ELSE IF f = NoFn
                        THEN NewOption(IF Truthy(heap.a) THEN heap.a ELSE PyNone, 0)
                        ELSE NewOption(IF Truthy(Apply(f, heap.a).val) THEN heap.a ELSE PyNone, 1))
        /\ Dropped

OptOr ==
    /\ OptCall("or_", NoFn, NoFn, PyNone,
               IF is_some(heap.a) THEN SameOption("a") ELSE SameOption("b"))
    /\ Dropped

OptOrElse ==
    \E f \in OptSuppliers :
        /\ OptCall("or_else", f, NoFn, PyNone,
                   IF is_some(heap.a) THEN SameOption("a") ELSE NewOption(Apply0(f).val, 1))
        /\ Dropped

OptXor ==
    /\ OptCall("xor", NoFn, NoFn, PyNone,
               IF is_some(heap.a) # is_some(heap.b)
               THEN IF is_some(heap.a) THEN SameOption("a") ELSE SameOption("b")
               ELSE NewOption(PyNone, 0))
    /\ Dropped

OptZip ==
    /\ OptCall("zip", NoFn, NoFn, PyNone,
               IF is_none(heap.a) \/ is_none(heap.b)
               THEN NewOption(PyNone, 0)
               ELSE NewOption(PyTuple(<<heap.a, heap.b>>), 0))
    /\ Dropped

\* the Option returned by the last combinator: self.value = value
OptInsert ==
    /\ oRet # "-"
    /\ \E v \in DefaultVals :
          OptCall("insert", NoFn, NoFn, v,
                  [heap |-> [heap EXCEPT ![oRet] = v], out |-> OptOut("raw", "-", FALSE, PyNone, 0)])
    /\ Dropped

OptTake ==
    /\ oRet # "-"
    /\ OptCall("take", NoFn, NoFn, PyNone,
               [heap |-> [heap EXCEPT ![oRet] = PyNone],
                out |-> OptOut("option", "-", TRUE, heap[oRet], 0)])
    /\ Dropped

OptReplace ==
    /\ oRet # "-"
    /\ \E v \in DefaultVals :
          OptCall("replace", NoFn, NoFn, v,
                  [heap |-> [heap EXCEPT ![oRet] = v],
                   out |-> OptOut("option", "-", TRUE, heap[oRet], 0)])
    /\ Dropped

\* get_or_insert has no return statement for a present Option
OptGetOrInsert ==
    \E v \in {PyInt(MaxVal)} :
        /\ OptCall("get_or_insert", NoFn, NoFn, v,
                   IF is_none(heap.a)
                   THEN [heap |-> [heap EXCEPT !.a = v], out |-> OptOut("raw", "-", FALSE, v, 0)]
                   ELSE [heap |-> heap, out |-> OptOut("raw", "-", FALSE, PyNone, 0)])
        /\ Dropped

OptGetOrInsertWith ==
    \E f \in OptSuppliers :
        /\ OptCall("get_or_insert_with", f, NoFn, PyNone,
                   IF is_none(heap.a)
                   THEN [heap |-> [heap EXCEPT !.a = Apply0(f).val],
                         out |-> OptOut("raw", "-", FALSE, Apply0(f).val, 1)]
                   ELSE [heap |-> heap, out |-> OptOut("raw", "-", FALSE, PyNone, 0)])
        /\ Dropped

\* ok_or: the Result it returns is the Result under test
OptOkOr ==
    \E e \in {PyExc("KeyError", <<>>), PyExc("KeyError", <<PyInt(MaxVal)>>)} :
        LET r == OptionOkOr(heap.a, e)
        IN  /\ OptCall("ok_or", NoFn, NoFn, e,
                       [heap |-> heap,
                        out |-> IF r.kind = "raise"
                                THEN OptOut("raise", "-", FALSE, r.raw, 0)
                                ELSE OptOut("result", "-", TRUE, PyNone, 0)])
            /\ NewResult(IF r.kind = "raise" THEN Res(PyNone, "None") ELSE r.res)
            /\ NoIter

\* iter: the Iter it returns is the Iter under test
OptIter ==
    /\ OptCall("iter", NoFn, NoFn, PyNone,
               [heap |-> heap, out |-> OptOut("iter", "-", TRUE, PyNone, 0)])
    /\ iter_' = OptionIter(heap.a)
    /\ itOp' = "iter"
    /\ itArg' = 0
    /\ itRet' = RetIter
    /\ itPre' = <<>>
    /\ prevOp' = "-"
    /\ prevRet' = RetNothing
    /\ called' = {}
    /\ NewResult(Res(PyNone, "None"))

\* Result.ok on the Result ok_or returned
CallOk ==
    /\ oOp = "ok_or"
    /\ oOut.kind = "result"
    /\ ResultCall("ok", NoFn, NoFn, PyNone, NoRes, ResultOk(res))

\* Result.unwrap on the Result ok_or returned
UnwrapIt ==
    /\ oOp = "ok_or"
    /\ oOut.kind = "result"
    /\ CallUnwrap

\* a pull or a drain of the Iter that iter returned
UseIter ==
    /\ oOp = "iter"
    /\ \/ CallNext
       \/ CallCount
       \/ CallCollect

OptionStep ==
    \/ OptMap
    \/ OptMapMap
    \/ OptMapOr
    \/ OptMapOrElse
    \/ OptAnd
    \/ OptAndThen
    \/ OptFilter
    \/ OptOr
    \/ OptOrElse
    \/ OptXor
    \/ OptZip
    \/ OptInsert
    \/ OptTake
    \/ OptReplace
    \/ OptGetOrInsert
    \/ OptGetOrInsertWith
    \/ OptOkOr
    \/ OptIter
    \/ CallOk
    \/ UnwrapIt
    \/ UseIter

SpecOption == OptionStart /\ [][OptionStep]_vars

(* ---- C1 ---- *)
\* C1: on an Iter that has only seen next, advance_by, count, last and
\* collect calls, next() returns an Option and never raises, and when
\* nothing is left unconsumed the Option is absent, call after call.
C1_NextNeverRaises ==
    (itOp = "next" /\ "peek" \notin called) =>
        /\ itRet.kind = "option"
        /\ itPre = <<>> => is_none(itRet.val)

\* a second next() in a row on an exhausted Iter, again absent
C1_Witness ==
    /\ "peek" \notin called
    /\ itOp = "next" /\ prevOp = "next"
    /\ itPre = <<>>
    /\ prevRet = RetOption(PyNone)
    /\ itRet = RetOption(PyNone)

(* ---- C2 ---- *)
\* C2: peek() loses and reorders nothing: with only peek and next called,
\* every next() returns Option of the first unconsumed element, or an absent
\* Option when none is left, and does not raise.
C2_PeekLosesNothing ==
    (itOp = "next" /\ OnlyPeekNext) => itRet = Front(itPre)

(* ---- C3 ---- *)
\* C3: peek() returns the Option of the first unconsumed element without
\* consuming it: a peek() after a peek() returns the same Option, the next()
\* right after a peek() returns that element, and on an exhausted Iter
\* peek() returns an absent Option.
C3_PeekIdempotent ==
    OnlyPeekNext =>
        /\ itOp = "peek" => itRet = Front(itPre)
        /\ (itOp = "peek" /\ prevOp = "peek") => itRet = prevRet
        /\ (itOp = "next" /\ prevOp = "peek") => itRet = prevRet

(* ---- C4 ---- *)
\* C4: map, and_then and and_ called on an Err return a Result equal to it
\* (same err_type, same payload) and invoke no closure; so does any chain of
\* such calls, each call's receiver being the previous call's result.
C4_ErrPassesUnchanged ==
    (rOp \in {"map", "and_then", "and_"} /\ is_err(rPre)) =>
        /\ rOut.kind = "result"
        /\ rOut.res = rPre
        /\ rOut.calls = <<>>
        /\ res = rPre

\* map called on an Err with a closure that would have raised
C4_Witness ==
    /\ rOp = "map" /\ is_err(rPre)
    /\ rFn.b = "raise"
    /\ rOut = OutResult(rPre, <<>>)

(* ---- C5 ---- *)
\* C5: when the closure of map, map_or or and_then raises X on Ok(v), or the
\* closure of or_else raises X on Err(K, p), the call returns an Err of kind
\* X whose payload is v (resp. p), not the exception's own argument.
C5_Retag ==
    LET r == Apply(rFn, rPre.value)
    IN  (/\ \/ rOp \in {"map", "map_or", "and_then"} /\ is_ok(rPre)
            \/ rOp = "or_else" /\ is_err(rPre)
         /\ r.kind = "raise") =>
            /\ rOut.kind = "result"
            /\ rOut.res = Res(rPre.value, r.val.k)

\* map on an Ok whose closure raised an exception carrying another argument
C5_Witness ==
    /\ rOp = "map" /\ is_ok(rPre)
    /\ rFn.b = "raise" /\ rFn.v.args # <<>> /\ rFn.v.args[1] # rPre.value
    /\ rOut.kind = "result"
    /\ rOut.res.value = rPre.value

(* ---- C6 ---- *)
\* C6: an exception raised by the closure passed to map, map_or, map_err,
\* and_then or or_else never escapes the call: the call returns an Err whose
\* kind is the class of the raised exception.
C6_ClosureNeverEscapes ==
    (/\ rOp \in {"map", "map_or", "map_err", "and_then", "or_else"}
     /\ rOut.calls # <<>>
     /\ Apply(rFn, rOut.calls[1].args[1]).kind = "raise") =>
        /\ rOut.kind = "result"
        /\ rOut.res.err_type = Apply(rFn, rOut.calls[1].args[1]).val.k

(* ---- C7 ---- *)
\* C7 as claimed: into(f) gives an Ok with unwrap() == v whenever f returns
\* v, and an Err equal to Result(X(p)) with unwrap_err() == p whenever f
\* raises X with first argument p.
C7_IntoLifts_Claimed ==
    rOp = "into" =>
        LET r == Apply0(rFn)
        IN  /\ r.kind = "ret" =>
                /\ rOut.kind = "result"
                /\ is_ok(rOut.res)
                /\ ResultUnwrap(rOut.res) = OutRaw(r.val, <<>>)
            /\ (r.kind = "raise" /\ r.val.args # <<>>) =>
                /\ rOut.kind = "result"
                /\ rOut.res.err_type = r.val.k
                /\ ResultUnwrapErr(rOut.res) = OutRaw(r.val.args[1], <<>>)
                /\ rOut.res = ResultNew(PyExc(r.val.k, <<r.val.args[1]>>), <<>>).res

\* C7 amended: into(f) calls f once, with no arguments; if f returns a value
\* v that is not an Exception instance the result is an Ok with unwrap() ==
\* v; if f raises X with first argument p, into does not raise and the
\* result is an Err with err_type X and unwrap_err() == p, equal to
\* Result(X(p)).
C7_IntoLifts ==
    rOp = "into" =>
        LET r == Apply0(rFn)
        IN  /\ rOut.calls = <<Invoked("f", <<>>)>>
            /\ (r.kind = "ret" /\ r.val.t # "exc") =>
                /\ rOut.kind = "result"
                /\ is_ok(rOut.res)
                /\ ResultUnwrap(rOut.res) = OutRaw(r.val, <<>>)
            /\ (r.kind = "raise" /\ r.val.args # <<>>) =>
                /\ rOut.kind = "result"
                /\ rOut.res.err_type = r.val.k
                /\ ResultUnwrapErr(rOut.res) = OutRaw(r.val.args[1], <<>>)
                /\ rOut.res = ResultNew(PyExc(r.val.k, <<r.val.args[1]>>), <<>>).res

\* into of a closure that raised an exception with an argument
C7_Witness ==
    /\ rOp = "into"
    /\ rFn.b = "raise" /\ rFn.v.args # <<>>
    /\ rOut.kind = "result"
    /\ is_err(rOut.res)

(* ---- C8 ---- *)
\* C8: unwrap() returns v on Ok(v) and raises K(p) on Err(K, p); expect(msg)
\* raises K(msg) on that Err; neither changes the Result.
C8_UnwrapRaisesKind ==
    /\ (rOp = "unwrap" /\ is_ok(rPre)) => rOut = OutRaw(rPre.value, <<>>)
    /\ (rOp = "unwrap" /\ is_err(rPre)) =>
            rOut = OutRaise(PyExc(rPre.err_type, <<rPre.value>>), <<>>)
    /\ (rOp = "expect" /\ is_err(rPre)) =>
            rOut = OutRaise(PyExc(rPre.err_type, <<rArg>>), <<>>)
    /\ rOp \in {"unwrap", "expect"} => res = rPre

\* unwrap on an Err, which raised
C8_Witness ==
    /\ rOp = "unwrap" /\ is_err(rPre)
    /\ rOut.kind = "raise"
    /\ rOut.raw.k = rPre.err_type

C15_CollectAll ==
    /\ (itOp = "collect" /\ "peek" \notin called)
          => itRet = RetList(itPre) /\ Unconsumed(iter_) = <<>>
    /\ (itOp = "next" /\ prevOp = "collect" /\ "peek" \notin called)
          => itRet = RetOption(PyNone)

C15_Witness ==
    /\ itOp = "next"
    /\ prevOp = "collect"
    /\ "peek" \notin called
    /\ Len(prevRet.items) >= 2
    /\ prevRet.items[1] # prevRet.items[2]

\* C18: on an Iter that peek() has not touched and that has r elements
\* remaining, advance_by(n) returns min(n, r), the number of elements it
\* skipped, and the Iter continues after the skipped elements.
C18_AdvanceBy ==
    (itOp = "advance_by" /\ "peek" \notin called)
       => /\ itRet = RetInt(Min(itArg, Len(itPre)))
          /\ Unconsumed(iter_) = Drop(itPre, itArg)

C18_Witness ==
    /\ itOp = "advance_by"
    /\ "peek" \notin called
    /\ itArg > Len(itPre)
    /\ Len(itPre) >= 1
    /\ itRet = RetInt(Len(itPre))

\* C19: on an Iter that peek() has not touched, nth(n) for n >= 1 returns
\* the n-th remaining element counting from one (nth(1) is what next()
\* would return), or the absent Option when fewer than n remain, and it
\* consumes everything up to and including the returned element.
C19_Nth ==
    (itOp = "nth" /\ itArg >= 1 /\ "peek" \notin called)
       => /\ itRet = IF itArg <= Len(itPre)
                     THEN RetOption(itPre[itArg])
                     ELSE RetOption(PyNone)
          /\ Unconsumed(iter_) = Drop(itPre, itArg)

C19_Witness ==
    /\ itOp = "nth"
    /\ "peek" \notin called
    /\ itArg = 2
    /\ Len(itPre) = 3
    /\ itPre[1] # itPre[2]
    /\ itRet = RetOption(itPre[2])
    /\ Unconsumed(iter_) = <<itPre[3]>>

\* C20: on an Iter that peek() has not touched, last() returns the final
\* remaining element, or the absent Option when nothing remains, and it
\* leaves the Iter exhausted.
C20_Last ==
    (itOp = "last" /\ "peek" \notin called)
       => /\ itRet = IF itPre = <<>>
                     THEN RetOption(PyNone)
                     ELSE RetOption(itPre[Len(itPre)])
          /\ Unconsumed(iter_) = <<>>

C20_Witness ==
    /\ itOp = "last"
    /\ "peek" \notin called
    /\ Len(itPre) >= 2
    /\ itPre[1] # itPre[Len(itPre)]
    /\ itRet = RetOption(itPre[Len(itPre)])

(* ------------------------ claims: the adaptors ------------------------- *)

\* the methods that return an adaptor
Builders ==
    {"map", "filter", "filter_map", "flat_map", "flatten", "inspect",
     "chain", "zip", "enumerate", "take_while"}

\* no element of xs is None
NoNone(xs) == \A i \in 1..Len(xs) : is_some(xs[i])

\* xs without its leading run of elements equal to v
RECURSIVE SkipRun(_, _)
SkipRun(xs, v) ==
    IF xs # <<>> /\ Head(xs) = v THEN SkipRun(Tail(xs), v) ELSE xs

\* C11: building an adaptor with map, filter, filter_map, flat_map, flatten,
\* inspect, chain, zip, enumerate or take_while returns a new Iter, pulls
\* nothing from the source and invokes no callback; a next() on the original
\* Iter right after it returns the first unconsumed element.
C11_BuildIsLazy ==
    /\ itOp \in Builders
          => /\ itRet = RetIter
             /\ Unconsumed(iter_) = itPre
             /\ cbLog = <<>>
    /\ (itOp = "next" /\ prevOp \in Builders) => itRet = Front(itPre)

C11_Witness ==
    /\ itOp = "next"
    /\ prevOp = "take_while"
    /\ ad.f = FnEq(PyInt(1))
    /\ Len(itPre) >= 2
    /\ itPre[1] = PyInt(1)
    /\ itRet = RetOption(PyInt(1))

\* C12: step_by(n) for n >= 1 returns a new Iter without raising and
\* without pulling from the source.
C12_StepByBuilds ==
    (itOp = "step_by" /\ itArg >= 1)
       => itRet = RetIter /\ Unconsumed(iter_) = itPre

\* C13: skip_while(pred), here pred is "x == 1" over a source with no None
\* elements, returns the same Iter with exactly the leading run of elements
\* satisfying pred removed, so that the next element is the first one
\* failing pred.
C13_SkipWhile ==
    (itOp = "skip_while" /\ itFn = FnEq(PyInt(1)) /\ NoNone(itPre))
       => /\ itRet = RetSelf
          /\ Unconsumed(iter_) = SkipRun(itPre, PyInt(1))

\* C14: fold(0, f), here f is a function that raises on no int and the
\* source holds ints only, returns without raising after draining the Iter
\* and calling f on every element in order; on an empty Iter it returns 0.
C14_Fold ==
    (itOp = "fold" /\ itFn = FnFlip /\ \A i \in 1..Len(itPre) : itPre[i].t = "int")
       => /\ itRet.kind = "value"
          /\ Unconsumed(iter_) = <<>>
          /\ cbLog = itPre
          /\ itPre = <<>> => itRet = RetValue(PyInt(itArg))

\* C16: collect raises ValueError whenever a None element is among the
\* elements still to be pulled, whatever its position.
C16_CollectNone ==
    (itOp = "collect" /\ ~NoNone(itPre)) => itRet = RetRaise("ValueError")

C16_Witness ==
    /\ itOp = "collect"
    /\ Len(itPre) = 3
    /\ is_some(itPre[1])
    /\ is_none(itPre[2])
    /\ is_some(itPre[3])
    /\ itRet = RetRaise("ValueError")

\* C17: pulling a.chain(b) gives every remaining element of a in order and
\* then every remaining element of b in order, b being an Iter, a plain
\* iterator or a list: next() returns the first of them, collect(list) the
\* list of all of them (when none is None); with b empty that is what is
\* left of a.
C17_Chain ==
    /\ (itOp = "adaptor.next" /\ ad.kind = "chain")
          => itRet = Front(itPre \o othPre)
    /\ (itOp = "adaptor.collect" /\ ad.kind = "chain" /\ NoNone(itPre))
          => itRet = RetList(itPre \o othPre)

C17_Witness ==
    /\ itOp = "adaptor.collect"
    /\ ad.kind = "chain"
    /\ other_.form = "iterator"
    /\ Len(itPre) >= 2
    /\ Len(othPre) >= 2
    /\ itRet = RetList(itPre \o othPre)

(* ------------------------- claims: find and zip ------------------------ *)

\* xs holds v
Holds(xs, v) == \E i \in 1..Len(xs) : xs[i] = v

\* the position of the first v in xs
FirstAt(xs, v) == CHOOSE k \in 1..Len(xs) : xs[k] = v /\ \A j \in 1..(k - 1) : xs[j] # v

\* the pairs of xs and ys, as many as the shorter has elements
Pairs(xs, ys) == [i \in 1..Min(Len(xs), Len(ys)) |-> PyTuple(<<xs[i], ys[i]>>)]

\* C21: find(pred), pred being "x == v", returns the Option of the first
\* remaining element equal to v and consumes the source up to and including
\* it, nothing beyond; when no remaining element matches it returns the
\* absent Option and leaves the Iter exhausted.
C21_Find ==
    (itOp = "find" /\ itFn.b = "eq")
       => IF Holds(itPre, itFn.v)
          THEN /\ itRet = RetOption(itFn.v)
               /\ Unconsumed(iter_) = Drop(itPre, FirstAt(itPre, itFn.v))
          ELSE /\ itRet = RetOption(PyNone)
               /\ Unconsumed(iter_) = <<>>

C21_Witness ==
    /\ itOp = "find"
    /\ itFn = FnEq(PyInt(1))
    /\ Len(itPre) = 3
    /\ itPre[1] # PyInt(1)
    /\ itPre[2] = PyInt(1)
    /\ itRet = RetOption(PyInt(1))
    /\ Unconsumed(iter_) = <<itPre[3]>>

\* C22: pulling a.zip(b) gives the pairs (a_0, b_0), (a_1, b_1), ... of raw
\* values in order and ends, without raising, after as many pairs as the
\* shorter side has elements, b being an Iter, a plain iterator or a list.
C22_Zip ==
    /\ (itOp = "adaptor.collect" /\ ad.kind = "zip")
          => itRet = RetList(Pairs(itPre, othPre))
    /\ (itOp = "adaptor.next" /\ ad.kind = "zip")
          => itRet = Front(Pairs(itPre, othPre))

C22_Witness ==
    /\ itOp = "adaptor.collect"
    /\ ad.kind = "zip"
    /\ other_.form = "seq"
    /\ Len(itPre) = 3
    /\ Len(othPre) = 2
    /\ itPre[1] # itPre[2]
    /\ itRet = RetList(<<PyTuple(<<itPre[1], othPre[1]>>), PyTuple(<<itPre[2], othPre[2]>>)>>)

\* C28 as claimed: pulling a.zip(b), not yet ended, to its end advances a
\* by exactly the number of pairs yielded.
C28_ZipNoUnpaired_Claimed ==
    (itOp = "adaptor.collect" /\ ad.kind = "zip" /\ adPre.st = "live")
       => Unconsumed(iter_) = Drop(itPre, Len(itRet.items))

\* C28 as amended: pulling a.zip(b), not yet ended, to its end advances a
\* by the number of pairs yielded, and by one element more when a had more
\* elements left than b: zip pulls a before it finds b exhausted, and that
\* element of a is lost.
C28_ZipOneUnpaired ==
    (itOp = "adaptor.collect" /\ ad.kind = "zip" /\ adPre.st = "live")
       => /\ itRet.kind = "list"
          /\ Unconsumed(iter_) =
                Drop(itPre, Len(itRet.items) + IF Len(itPre) > Len(othPre) THEN 1 ELSE 0)

C28_Witness ==
    /\ itOp = "adaptor.collect"
    /\ ad.kind = "zip"
    /\ adPre.st = "live"
    /\ Len(itPre) = 3
    /\ Len(othPre) = 1
    /\ Len(itRet.items) = 1
    /\ Unconsumed(iter_) = <<itPre[3]>>

(* ------------------------- claims: the Option -------------------------- *)

\* the elements the Iter of Option(v).iter() is claimed to hold
IterOf(v) == IF is_none(v) THEN <<>> ELSE IF Iterable(v) THEN v.args ELSE <<v>>

\* C23: Option.iter() converts by case: an absent Option gives an empty
\* Iter (count() == 0, collect(list) == []), a present value that is not
\* iterable gives an Iter that yields Option(v) and then absent, a present
\* iterable value gives an Iter over its elements in order.
C23_OptionIter ==
    oOp = "iter" =>
        /\ itOp = "iter" => Unconsumed(iter_) = IterOf(heap.a)
        /\ (itOp = "count" /\ prevOp = "iter") => itRet = RetInt(Len(IterOf(heap.a)))
        /\ (itOp = "collect" /\ prevOp = "iter" /\ NoNone(IterOf(heap.a))) =>
               itRet = RetList(IterOf(heap.a))
        /\ (itOp = "next" /\ prevOp = "iter") =>
               itRet = RetOption(IF IterOf(heap.a) = <<>> THEN PyNone ELSE IterOf(heap.a)[1])
        /\ (itOp = "next" /\ prevOp = "next" /\ ~Iterable(heap.a)) => itRet = RetOption(PyNone)


\* what Option(v).map(lambda x: g(f(x))) is by the law: an exception when
\* the composition raises, else the Option of what it returns
MapComposed(v, f, g) ==
    LET c == Invoke(FnCompose(g, f), v)
    IN  IF c.kind = "raise" THEN [kind |-> "raise", val |-> c.val]
        ELSE [kind |-> "option", val |-> c.val]

\* the outcome of a.map(f).map(g) equals that of a.map(lambda x: g(f(x)))
SameAsComposed ==
    /\ oOut.kind = MapComposed(oPre.a, oFn, oFn2).kind
    /\ oOut.val = MapComposed(oPre.a, oFn, oFn2).val

\* C24 as claimed: for every present Option(v) and all f and g, also those
\* that return None, Option(v).map(f).map(g) equals
\* Option(v).map(lambda x: g(f(x))).
C24_Functor_Claimed == (oOp = "map.map" /\ is_some(oPre.a)) => SameAsComposed

\* C24: for every present Option(v) and all f and g such that f(v) is not
\* None (f may raise, g may return None), Option(v).map(f).map(g) equals
\* Option(v).map(lambda x: g(f(x))).
C24_Functor ==
    (/\ oOp = "map.map"
     /\ is_some(oPre.a)
     /\ Apply(oFn, oPre.a) # Returned(PyNone)) => SameAsComposed

\* both maps called their closure, and g returned None
C24_Witness ==
    /\ oOp = "map.map"
    /\ oPre.a = PyInt(1)
    /\ oFn = FnFlip
    /\ oFn2 = FnConst(PyNone)
    /\ oOut = OptOut("option", "n", TRUE, PyNone, 1)


\* Option(v).ok_or(e) and the calls on its Result are as the round trip says
RoundTrip ==
    /\ oOut.kind = "result"
    /\ is_some(oPre.a) =>
          /\ is_ok(res)
          /\ rOp = "unwrap" => rOut = OutRaw(oPre.a, <<>>)
          /\ rOp = "ok" => rOut = OutRaw(PyOption(oPre.a), <<>>)
    /\ is_none(oPre.a) =>
          /\ is_err(res)
          /\ rOp = "unwrap" => (rOut.kind = "raise" /\ rOut.raw.k = oArg.k)
          /\ rOp = "ok" => rOut = OutRaw(PyOption(PyNone), <<>>)

C25_WitnessAbsent ==
    /\ oOp = "ok_or"
    /\ oPre.a = PyNone
    /\ rOp = "unwrap"
    /\ rOut.kind = "raise"
    /\ rOut.raw.k = "KeyError"


\* the Option combinators that do not mutate
Combinators ==
    {"map", "map.map", "map_or", "map_or_else", "and_", "and_then", "filter",
     "or_", "or_else", "xor", "zip"}

\* C26: every non-mutating Option combinator leaves the receiver's (and the
\* argument's) value unchanged and returns a new Option object, distinct
\* from the receiver and from the argument, so that a later insert(), take()
\* or replace() on the returned Option changes neither of them.
C26_NewOption ==
    /\ oOp \in Combinators => (heap.a = oPre.a /\ heap.b = oPre.b)
    /\ (oOp \in Combinators /\ oOut.kind = "option") => (oOut.fresh /\ oOut.ref \notin {"a", "b"})
    /\ oOp \in {"insert", "take", "replace"} => (heap.a = oPre.a /\ heap.b = oPre.b)


\* C27: get_or_insert(value) and get_or_insert_with(f) on an absent Option
\* store value / f() in place and return the now-contained value; on a
\* present Option they leave the contents unchanged, do not call f, and
\* return the contained value.
C27_GetOrInsert ==
    oOp \in {"get_or_insert", "get_or_insert_with"} =>
        /\ oOut.kind = "raw"
        /\ oOut.val = heap.a
        /\ heap.b = oPre.b
        /\ is_none(oPre.a) =>
              heap.a = (IF oOp = "get_or_insert" THEN oArg ELSE Apply0(oFn).val)
        /\ is_some(oPre.a) => (heap.a = oPre.a /\ oOut.calls = 0)

====
